---- MODULE Spec2Model ----
(***************************************************************************)
(* Model of the Agentforce badge service: the Flask resource Process.post  *)
(* of app.py (Basic-Auth check, request parsing, badge call, debug.html    *)
(* write, response) and the badge compositor create_badge of               *)
(* badgecreator.py (logo load and resize, font load with fallback, text    *)
(* measurement, canvas layout, rotated label layer, encoding).             *)
(*                                                                         *)
(* Workers are the request threads of the server and the direct callers   *)
(* of create_badge (the unit tests call it without the HTTP layer).        *)
(* Python locals of one call live in frame[p]; a local that has not been   *)
(* assigned yet is a field the record does not have.                       *)
(***************************************************************************)
EXTENDS Integers, Sequences, FiniteSets, TLC

(***************************************************************************)
(* Workers, and the number of calls one run of the model follows.          *)
(***************************************************************************)
Procs == {"w1", "w2"}

Serial == {"w1"}

MaxCalls == 3

(***************************************************************************)
(* Python values.  None is the empty option, Some(v) a present value.      *)
(***************************************************************************)
None == <<>>

Some(v) == <<v>>

Max(a, b) == IF a >= b THEN a ELSE b

HasField(r, f) == f \in DOMAIN r

Extend(r, more) == more @@ r

(***************************************************************************)
(* Strings are sequences of characters.                                    *)
(***************************************************************************)
TITLE == <<"H","e","r","o","k","u"," ","A","g","e","n","t"," ","A","c","t","i","o","n">>

DEPLOYED_BY == <<"D","e","p","l","o","y","e","d"," ","b","y"," ">>

NAME_KEY == <<"n","a","m","e">>

NEO == <<"N","e","o">>

TRINITY == <<"T","r","i","n","i","t","y","-","0","1">>

TEST_LINE_1 == <<"T","e","s","t"," ","l","i","n","e"," ","1">>

(* s is a contiguous part of t: Python's  s in t  for two strings. *)
IsSubstring(s, t) ==
    \E i \in 0..(Len(t) - Len(s)) : SubSeq(t, i + 1, i + Len(s)) = s

(***************************************************************************)
(* JSON request bodies as request.json yields them.                        *)
(***************************************************************************)
JObject(keys, val) == [kind |-> "object", keys |-> keys, val |-> val, items |-> <<>>, chars |-> <<>>, num |-> 0]

JArray(items) == [kind |-> "array", keys |-> {}, val |-> <<>>, items |-> items, chars |-> <<>>, num |-> 0]

JString(chars) == [kind |-> "string", keys |-> {}, val |-> <<>>, items |-> <<>>, chars |-> chars, num |-> 0]

JNumber(n) == [kind |-> "number", keys |-> {}, val |-> <<>>, items |-> <<>>, chars |-> <<>>, num |-> n]

JNull == [kind |-> "null", keys |-> {}, val |-> <<>>, items |-> <<>>, chars |-> <<>>, num |-> 0]

Names == {<<>>, NEO, TRINITY}

DirectLines == {<<>>, TEST_LINE_1, TITLE \o TRINITY}

Bodies ==
    {JObject({NAME_KEY}, n) : n \in Names}
        \cup {JObject({}, <<>>), JObject({TITLE}, NEO),
              JArray(<<>>), JArray(<<NAME_KEY>>),
              JString(NAME_KEY), JNumber(0), JNumber(5), JNull}

(* Python truth value of a JSON value:  not data  is ~Truthy(data). *)
Truthy(data) ==
    CASE data.kind = "object" -> data.keys # {}
      [] data.kind = "array"  -> Len(data.items) > 0
      [] data.kind = "string" -> Len(data.chars) > 0
      [] data.kind = "number" -> data.num # 0
      [] OTHER -> FALSE

(* 'name' in data : "True", "False", or the TypeError of a non-container. *)
ContainsName(data) ==
    CASE data.kind = "object" -> IF NAME_KEY \in data.keys THEN "True" ELSE "False"
      [] data.kind = "array"  ->
            IF \E i \in 1..Len(data.items) : data.items[i] = NAME_KEY
            THEN "True" ELSE "False"
      [] data.kind = "string" -> IF IsSubstring(NAME_KEY, data.chars) THEN "True" ELSE "False"
      [] OTHER -> "TypeError"

(* data['name'] : defined for a dict only; a list or a str index raises. *)
CanSubscriptName(data) == data.kind = "object" /\ NAME_KEY \in data.keys

(***************************************************************************)
(* Credentials and the user table of app.py.                               *)
(***************************************************************************)
HEROKU == <<"h","e","r","o","k","u">>

AGENT == <<"a","g","e","n","t">>

INVALID == <<"i","n","v","a","l","i","d">>

WRONG == <<"w","r","o","n","g">>

SALT == <<"s","a","l","t">>

(* A salted digest: the password is recoverable only by hashing a guess. *)
generate_password_hash(password) == [salt |-> SALT, digest |-> <<"H", SALT, password>>]

check_password_hash(pwhash, password) == pwhash.digest = <<"H", pwhash.salt, password>>

users == [u \in {HEROKU} |-> generate_password_hash(AGENT)]

(* No Authorization header reaches verify_password as two empty strings. *)
Credentials ==
    {[username |-> HEROKU, password |-> AGENT],
     [username |-> HEROKU, password |-> WRONG],
     [username |-> INVALID, password |-> WRONG],
     [username |-> INVALID, password |-> AGENT],
     [username |-> <<>>, password |-> <<>>]}

verify_password_any_known(username, password) ==
    IF username \in DOMAIN users THEN Some(username) ELSE None

verify_password(username, password) ==
    IF username \in DOMAIN users /\ check_password_hash(users[username], password)
    THEN Some(username)
    ELSE None

(***************************************************************************)
(* The deployment: the two asset files create_badge reads, and whether the *)
(* working directory accepts the debug.html write.                         *)
(***************************************************************************)
LogoImage(w, h) == [state |-> "image", width |-> w, height |-> h]

LogoMissing == [state |-> "missing", width |-> 0, height |-> 0]

LogoCorrupt == [state |-> "corrupt", width |-> 0, height |-> 0]

LogoFiles ==
    {LogoMissing, LogoCorrupt,
     LogoImage(2, 1), LogoImage(1200, 400), LogoImage(100, 29), LogoImage(400, 1)}

FontFiles == {"truetype", "missing", "corrupt"}

(***************************************************************************)
(* Constants of create_badge.                                              *)
(***************************************************************************)
logo_width == 200

font_size == 20

padding == 15

box_padding_top_bottom == 5

box_padding_sides == 10

overlap == 10

shadow_offset == 5

rotation_angle == 0 - 10

(* Metrics of the two fonts: advance per glyph, top and bottom of a line's *)
(* bounding box.                                                           *)
ARIAL == [kind |-> "truetype", size |-> font_size, advance |-> 11, top |-> 4, bottom |-> 19]

DEFAULT_FONT == [kind |-> "default", size |-> 10, advance |-> 6, top |-> 3, bottom |-> 11]

(***************************************************************************)
(* create_badge, one operator per stage.  Each takes the frame of the call *)
(* and returns it with the stage's locals bound, or with exc bound when    *)
(* the stage raises.                                                       *)
(***************************************************************************)
NewFrame(caller, line1, line2) == [caller |-> caller, line1 |-> line1, line2 |-> line2]

Raise(f, e) == Extend(f, [exc |-> e])

(* Image.open(logo_path).convert("RGBA") under  except FileNotFoundError.  *)
(* A file that is there but is no image raises UnidentifiedImageError,     *)
(* which the except clause does not name.                                  *)
LoadLogo_blank(f, file) ==
    IF file.state = "image"
    THEN Extend(f, [logo |-> [width |-> file.width, height |-> file.height]])
    ELSE Extend(f, [logo |-> [width |-> 1, height |-> 1]])

LoadLogo(f, file) ==
    CASE file.state = "image" ->
            Extend(f, [logo |-> [width |-> file.width, height |-> file.height]])
      [] file.state = "missing" -> Raise(f, "FileNotFoundError")
      [] OTHER -> Raise(f, "UnidentifiedImageError")

(* Pairs (width, height) of LogoFiles for which the double h / w lies      *)
(* below the quotient and 200 * (h / w) below the integer 200h / w:        *)
(* 29 / 100 is 0.28999999999999998 and 200 * that is 57.99999999999999.    *)
RoundsBelow == {<<100, 29>>}

(* int(logo_width * (logo.height / logo.width)): true division, product,   *)
(* truncation.                                                             *)
ScaledHeight_round(w, h) == (2 * logo_width * h + w) \div (2 * w)

ScaledHeight(w, h) ==
    IF <<w, h>> \in RoundsBelow
    THEN ((logo_width * h) \div w) - 1
    ELSE (logo_width * h) \div w

(* logo.resize((logo_width, logo_height)) refuses a side below 1. *)
ResizeLogo(f) ==
    LET lh == ScaledHeight(f.logo.width, f.logo.height)
        g  == Extend(f, [logo_height |-> lh, original |-> f.logo])
    IN  IF lh < 1
        THEN Raise(g, "ValueError")
        ELSE [g EXCEPT !.logo = [width |-> logo_width, height |-> lh]]

(* ImageFont.truetype(font_path, font_size) under  except IOError. *)
LoadFont_strict(f, file) ==
    IF file = "truetype"
    THEN Extend(f, [font |-> ARIAL, warned |-> FALSE])
    ELSE Raise(f, "OSError")

LoadFont(f, file) ==
    IF file = "truetype"
    THEN Extend(f, [font |-> ARIAL, warned |-> FALSE])
    ELSE Extend(f, [font |-> DEFAULT_FONT, warned |-> TRUE])

(* temp_draw.textbbox((0, 0), line, font=font): (left, top, right, bottom) *)
textbbox(line, font) ==
    IF Len(line) = 0
    THEN <<0, 0, 0, 0>>
    ELSE <<0, font.top, Len(line) * font.advance, font.bottom>>

MeasureText(f) ==
    LET b1 == textbbox(f.line1, f.font)
        b2 == textbbox(f.line2, f.font)
    IN  Extend(f, [line1_bbox  |-> b1,
                   line2_bbox  |-> b2,
                   text_width  |-> Max(b1[3], b2[3]),
                   text_height |-> (b1[4] - b1[2]) + (b2[4] - b2[2])])

BoxWidth(text_width) == text_width + 2 * box_padding_sides

BoxHeight(text_height) == text_height + 2 * box_padding_top_bottom

BadgeWidth_logo_only(box_width) == logo_width + 2 * padding

BadgeWidth(box_width) == Max(box_width + 2 * padding, logo_width + 2 * padding)

BadgeHeight(logo_height, box_height) == logo_height + box_height + 2 * padding

(* Badge dimensions, the canvas, and the logo pasted at the top. *)
Layout(f) ==
    LET bw == BoxWidth(f.text_width)
        bh == BoxHeight(f.text_height)
        W  == BadgeWidth(bw)
        H  == BadgeHeight(f.logo_height, bh)
        lx == (W - logo_width) \div 2
    IN  Extend(f, [box_width |-> bw,
                   box_height |-> bh,
                   badge_width |-> W,
                   dynamic_badge_height |-> H,
                   logo_x |-> lx,
                   logo_y |-> padding,
                   badge |-> [size |-> <<W, H>>,
                              layers |-> << [what |-> "logo", at |-> <<lx, padding>>,
                                             size |-> <<f.logo.width, f.logo.height>>] >>]])

(* int(math.sqrt(n)): the largest r with r * r <= n. *)
IntSqrt(n, hi) == CHOOSE r \in 0..hi : r * r <= n /\ (r + 1) * (r + 1) > n

Diagonal(box_width, box_height) ==
    IntSqrt(box_width * box_width + box_height * box_height, box_width + box_height)

BoxY(logo_y, logo_height, box_height) == logo_y + logo_height - overlap

(* Box position on the badge, the square buffer, the box centred in it,    *)
(* shadow, box and the two lines drawn, the buffer rotated about its       *)
(* centre.                                                                 *)
BuildLabel(f) ==
    LET bx == (f.badge_width - f.box_width) \div 2
        by == BoxY(f.logo_y, f.logo_height, f.box_height)
        d  == Diagonal(f.box_width, f.box_height)
        cx == d \div 2
        cy == d \div 2
        ox == cx - (f.box_width \div 2)
        oy == cy - (f.box_height \div 2)
        tx1 == ox + ((f.box_width - f.line1_bbox[3]) \div 2)
        tx2 == ox + ((f.box_width - f.line2_bbox[3]) \div 2)
        ty  == oy + box_padding_top_bottom
    IN  Extend(f, [box_x |-> bx,
                   box_y |-> by,
                   diagonal |-> d,
                   box_center |-> <<cx, cy>>,
                   box_origin |-> <<ox, oy>>,
                   rotated_box |->
                       [size   |-> <<d, d>>,
                        shadow |-> <<ox + shadow_offset, oy + shadow_offset,
                                     ox + f.box_width + shadow_offset,
                                     oy + f.box_height + shadow_offset>>,
                        box    |-> <<ox, oy, ox + f.box_width, oy + f.box_height>>,
                        text   |-> << [at |-> <<tx1, ty>>, line |-> f.line1],
                                      [at |-> <<tx2, ty + (f.line1_bbox[4] - f.line1_bbox[2])>>,
                                       line |-> f.line2] >>,
                        font   |-> f.font.kind,
                        angle  |-> rotation_angle,
                        center |-> <<cx, cy>>]])

PastePosition_centre(box_x, box_y, center, box_width, box_height) ==
    <<box_x - center[1], box_y - center[2]>>

PastePosition(box_x, box_y, center, box_width, box_height) ==
    <<box_x - (center[1] - (box_width \div 2)),
      box_y - (center[2] - (box_height \div 2))>>

(* base64.b64encode of the PNG bytes of an image. *)
EncodePng(image) == [b64 |-> "iVBORw0KGgo", png |-> image]

(* The label pasted on the badge, the badge saved as PNG and encoded. *)
PasteAndEncode(f) ==
    LET pos == PastePosition(f.box_x, f.box_y, f.box_center, f.box_width, f.box_height)
        b   == [f.badge EXCEPT !.layers =
                    Append(@, [what |-> "label", at |-> pos, image |-> f.rotated_box])]
    IN  Extend([f EXCEPT !.badge = b],
               [rotated_box_position |-> pos, base64_image |-> EncodePng(b)])

(***************************************************************************)
(* Responses and messages of app.py.                                       *)
(***************************************************************************)
IMG_TAG == "<img src=\"data:image/png;base64,{base64_image}\">"

ERROR_MESSAGE == "Error generating badge"

NAME_REQUIRED == "Invalid request, 'name' field is required"

HtmlFragment(base64_image) == [text |-> IMG_TAG, image |-> Some(base64_image)]

PlainMessage(text) == [text |-> text, image |-> None]

DebugHtml(fragment) == [text |-> "<body style='background: black'>{html_fragment}</body>",
                        fragment |-> fragment]

Response(status, message, error) == [status |-> status, message |-> message, error |-> error]

(* AgentResponse(message).to_dict(), returned with the default status. *)
to_dict(message) == Response(200, Some(message), None)

Empty == [x \in {} |-> x]

(***************************************************************************)
(* State.                                                                  *)
(***************************************************************************)
VARIABLES
    logoFile,    \* resources/heroku_logo.png
    fontFile,    \* arial.ttf
    writable,    \* whether open("debug.html", "w") succeeds
    debugFile,   \* content of debug.html, None while it does not exist
    pc,          \* position of each worker
    request,     \* credentials and body of the request a worker serves
    handler,     \* locals of Process.post
    frame,       \* locals of create_badge
    response,    \* what the HTTP client got
    calls,       \* calls started so far
    errorLog     \* number of "Error generating badge" lines logged

vars == <<logoFile, fontFile, writable, debugFile, pc, request, handler, frame, response, calls,
          errorLog>>

assets == <<logoFile, fontFile, writable>>

Init ==
    /\ logoFile \in LogoFiles
    /\ fontFile \in FontFiles
    /\ writable \in BOOLEAN
    /\ debugFile = None
    /\ pc = [p \in Procs |-> "idle"]
    /\ request = [p \in Procs |-> None]
    /\ handler = [p \in Procs |-> Empty]
    /\ frame = [p \in Procs |-> Empty]
    /\ response = [p \in Procs |-> None]
    /\ calls = 0
    /\ errorLog = 0

Free(p) == pc[p] \in {"idle", "done"}

(***************************************************************************)
(* The HTTP layer.                                                         *)
(***************************************************************************)
(* A POST /process arrives and is given to worker p. *)
Receive(p, creds, body) ==
    /\ Free(p)
    /\ calls < MaxCalls
    /\ calls' = calls + 1
    /\ pc' = [pc EXCEPT ![p] = "auth"]
    /\ request' = [request EXCEPT ![p] = Some([creds |-> creds, body |-> body])]
    /\ handler' = [handler EXCEPT ![p] = Empty]
    /\ frame' = [frame EXCEPT ![p] = Empty]
    /\ response' = [response EXCEPT ![p] = None]
    /\ UNCHANGED <<assets, errorLog, debugFile>>

(* auth.login_required: verify_password decides; None is answered 401. *)
Authenticate(p) ==
    /\ pc[p] = "auth"
    /\ LET c == request[p][1].creds
           user == verify_password(c.username, c.password)
       IN  IF user = None
           THEN /\ response' = [response EXCEPT ![p] =
                        Some(Response(401, None, Some("Unauthorized Access")))]
                /\ pc' = [pc EXCEPT ![p] = "done"]
           ELSE /\ pc' = [pc EXCEPT ![p] = "post"]
                /\ UNCHANGED response
    /\ UNCHANGED <<assets, errorLog, debugFile, request, handler, frame, calls>>

(* What  not data or 'name' not in data  and  data['name']  do with data:  *)
(* "reject" (the 400 branch), "raise" (a TypeError outside the try) or     *)
(* "accept".                                                               *)
Validate(data) ==
    IF ~Truthy(data) THEN "reject"
    ELSE CASE ContainsName(data) = "False" -> "reject"
           [] ContainsName(data) = "TypeError" -> "raise"
           [] OTHER -> IF CanSubscriptName(data) THEN "accept" ELSE "raise"

(* post, up to the try: parse the body, build the AgentRequest. *)
ParseRequest(p) ==
    /\ pc[p] = "post"
    /\ LET data == request[p][1].body
           v == Validate(data)
       IN  CASE v = "reject" ->
                  /\ handler' = [handler EXCEPT ![p] = [data |-> data]]
                  /\ response' = [response EXCEPT ![p] =
                          Some(Response(400, None, Some(NAME_REQUIRED)))]
                  /\ pc' = [pc EXCEPT ![p] = "done"]
             [] v = "raise" ->
                  /\ handler' = [handler EXCEPT ![p] = [data |-> data, exc |-> "TypeError"]]
                  /\ response' = [response EXCEPT ![p] =
                          Some(Response(500, None, Some("Internal Server Error")))]
                  /\ pc' = [pc EXCEPT ![p] = "done"]
             [] OTHER ->
                  /\ handler' = [handler EXCEPT ![p] =
                          [data |-> data, agent_request |-> [name |-> data.val]]]
                  /\ pc' = [pc EXCEPT ![p] = "try"]
                  /\ UNCHANGED response
    /\ UNCHANGED <<assets, errorLog, debugFile, request, frame, calls>>

(* create_badge("Heroku Agent Action", f"Deployed by {agent_request.name}") *)
CallCreateBadge(p) ==
    /\ pc[p] = "try"
    /\ frame' = [frame EXCEPT ![p] =
            NewFrame("http", TITLE, DEPLOYED_BY \o handler[p].agent_request.name)]
    /\ pc' = [pc EXCEPT ![p] = "load_logo"]
    /\ UNCHANGED <<assets, errorLog, debugFile, request, handler, response, calls>>

(* create_badge called without the HTTP layer. *)
DirectCall(p, line1, line2) ==
    /\ Free(p)
    /\ calls < MaxCalls
    /\ calls' = calls + 1
    /\ frame' = [frame EXCEPT ![p] = NewFrame("direct", line1, line2)]
    /\ pc' = [pc EXCEPT ![p] = "load_logo"]
    /\ request' = [request EXCEPT ![p] = None]
    /\ handler' = [handler EXCEPT ![p] = Empty]
    /\ response' = [response EXCEPT ![p] = None]
    /\ UNCHANGED <<assets, errorLog, debugFile>>

(***************************************************************************)
(* create_badge, stage by stage.                                           *)
(***************************************************************************)
Stage(p, at, result, then) ==
    /\ pc[p] = at
    /\ frame' = [frame EXCEPT ![p] = result]
    /\ pc' = [pc EXCEPT ![p] = IF HasField(result, "exc") THEN "raised" ELSE then]
    /\ UNCHANGED <<assets, errorLog, debugFile, request, handler, response, calls>>

StepLoadLogo(p) == Stage(p, "load_logo", LoadLogo(frame[p], logoFile), "resize")

StepResize(p) == Stage(p, "resize", ResizeLogo(frame[p]), "load_font")

StepLoadFont(p) == Stage(p, "load_font", LoadFont(frame[p], fontFile), "measure")

StepMeasure(p) == Stage(p, "measure", MeasureText(frame[p]), "layout")

StepLayout(p) == Stage(p, "layout", Layout(frame[p]), "label")

(* The label drawn into a buffer another call has already drawn into,      *)
(* instead of one allocated for this call.                                 *)
StepLabel_shared_buffer(p) ==
    LET fresh == BuildLabel(frame[p])
        drawn == {q \in Procs \ {p} : HasField(frame[q], "rotated_box")}
        label == IF drawn = {}
                 THEN fresh
                 ELSE LET q == CHOOSE q \in drawn : TRUE
                      IN  [fresh EXCEPT !.rotated_box.text = frame[q].rotated_box.text \o @]
    IN  Stage(p, "label", label, "encode")

StepLabel(p) == Stage(p, "label", BuildLabel(frame[p]), "encode")

StepEncode(p) == Stage(p, "encode", PasteAndEncode(frame[p]), "returned")

(* The direct caller has the value, or the exception. *)
DirectReturn(p) ==
    /\ pc[p] \in {"returned", "raised"}
    /\ frame[p].caller = "direct"
    /\ pc' = [pc EXCEPT ![p] = "done"]
    /\ UNCHANGED <<assets, errorLog, debugFile, request, handler, frame, response, calls>>

(***************************************************************************)
(* post, from the return of create_badge on.                               *)
(***************************************************************************)
(* The rest of the try block: the fragment becomes the message and         *)
(* debug.html is written; a failed open leaves the try by the except.      *)
SaveDebug(p) ==
    /\ pc[p] = "returned"
    /\ frame[p].caller = "http"
    /\ LET fragment == HtmlFragment(frame[p].base64_image)
           h == Extend(handler[p], [base64_image |-> frame[p].base64_image,
                                    html_fragment |-> fragment,
                                    message |-> fragment])
       IN  IF writable
           THEN /\ debugFile' = Some(DebugHtml(fragment))
                /\ handler' = [handler EXCEPT ![p] = Extend(h, [saved |-> TRUE])]
                /\ pc' = [pc EXCEPT ![p] = "respond"]
           ELSE /\ handler' = [handler EXCEPT ![p] = Extend(h, [exc |-> "PermissionError"])]
                /\ pc' = [pc EXCEPT ![p] = "except"]
                /\ UNCHANGED debugFile
    /\ UNCHANGED <<assets, errorLog, request, frame, response, calls>>

Caught_reraise(h, e) == Extend(h, [exc |-> e])

Caught(h, e) == Extend(h, [exc |-> e, message |-> PlainMessage(ERROR_MESSAGE)])

(* except Exception: whatever the try raised becomes the error message. *)
Except(p) ==
    /\ \/ pc[p] = "raised" /\ frame[p].caller = "http"
       \/ pc[p] = "except"
    /\ LET e == IF pc[p] = "raised" THEN frame[p].exc ELSE handler[p].exc
       IN  handler' = [handler EXCEPT ![p] = Caught(handler[p], e)]
    /\ errorLog' = errorLog + 1
    /\ pc' = [pc EXCEPT ![p] = "respond"]
    /\ UNCHANGED <<assets, debugFile, request, frame, response, calls>>

(* AgentResponse(message).to_dict(); an exception that left post is the    *)
(* server's 500.                                                           *)
Respond(p) ==
    /\ pc[p] = "respond"
    /\ response' = [response EXCEPT ![p] =
            IF HasField(handler[p], "message")
            THEN Some(to_dict(handler[p].message))
            ELSE Some(Response(500, None, Some("Internal Server Error")))]
    /\ pc' = [pc EXCEPT ![p] = "done"]
    /\ UNCHANGED <<assets, errorLog, debugFile, request, handler, frame, calls>>

Step(p) ==
    \/ \E creds \in Credentials, body \in Bodies : Receive(p, creds, body)
    \/ Authenticate(p)
    \/ ParseRequest(p)
    \/ CallCreateBadge(p)
    \/ \E line1 \in DirectLines, line2 \in DirectLines : DirectCall(p, line1, line2)
    \/ StepLoadLogo(p)
    \/ StepResize(p)
    \/ StepLoadFont(p)
    \/ StepMeasure(p)
    \/ StepLayout(p)
    \/ StepLabel(p)
    \/ StepEncode(p)
    \/ DirectReturn(p)
    \/ SaveDebug(p)
    \/ Except(p)
    \/ Respond(p)

(* One request at a time: the service as a single thread sees it. *)
Next == \E p \in Serial : Step(p)

Spec == Init /\ [][Next]_vars

(***************************************************************************)
(* create_badge called from several threads at once: every worker calls    *)
(* it directly and the stages of the calls interleave freely.              *)
(***************************************************************************)
StepPar(p) ==
    \/ \E line1 \in DirectLines, line2 \in DirectLines : DirectCall(p, line1, line2)
    \/ StepLoadLogo(p)
    \/ StepResize(p)
    \/ StepLoadFont(p)
    \/ StepMeasure(p)
    \/ StepLayout(p)
    \/ StepLabel(p)
    \/ StepEncode(p)
    \/ DirectReturn(p)

(* No request writes debug.html here, so its directory plays no part. *)
InitPar == Init /\ writable

NextPar == \E p \in Procs : StepPar(p)

SpecPar == InitPar /\ [][NextPar]_vars

(***************************************************************************)
(* Vocabulary of the properties.                                           *)
(***************************************************************************)
Abs(n) == IF n < 0 THEN 0 - n ELSE n

(* create_badge has been entered by the call worker p is on. *)
Called(p) == HasField(frame[p], "caller")

(* The call is past the logo load. *)
PastLogoLoad(p) == Called(p) /\ pc[p] # "load_logo"

(* The call came in over HTTP and its credentials are the configured pair. *)
ValidCredentials(p) ==
    /\ request[p] # None
    /\ request[p][1].creds.username = HEROKU
    /\ request[p][1].creds.password = AGENT

(* The request of worker p wrote debug.html. *)
Saved(p) == HasField(handler[p], "saved")

(* The body is no JSON object with a 'name' member. *)
LacksName(body) == ~(body.kind = "object" /\ NAME_KEY \in body.keys)

Answered(p) == pc[p] = "done" /\ response[p] # None

(* The locals a call has bound when only the arguments and the exception   *)
(* of the logo load exist.                                                 *)
NothingBuilt(p) ==
    /\ DOMAIN frame[p] = {"caller", "line1", "line2", "exc"}
    /\ ~Saved(p)
    /\ ~HasField(handler[p], "html_fragment")
    /\ (response[p] # None => response[p][1].message # None
                              /\ response[p][1].message[1].image = None)

C2_FontFallback ==
    \A p \in Procs :
        LET f == frame[p] IN
        /\ (HasField(f, "line1_bbox") \/ HasField(f, "line2_bbox")) => HasField(f, "font")
        /\ (/\ HasField(f, "logo_height")
            /\ f.logo_height >= 1
            /\ pc[p] \notin {"resize", "load_font"})
              => /\ HasField(f, "font")
                 /\ ~HasField(f, "exc")
                 /\ (fontFile # "truetype" => f.font = DEFAULT_FONT /\ f.warned)
                 /\ (fontFile = "truetype" => f.font = ARIAL)
                 /\ (pc[p] \in {"returned", "except", "respond", "done"}
                        => HasField(f, "base64_image"))

C2_Witness ==
    \E p \in Procs :
        /\ fontFile # "truetype"
        /\ pc[p] = "done"
        /\ HasField(frame[p], "base64_image")
        /\ frame[p].font = DEFAULT_FONT

(***************************************************************************)
(* C3: an authenticated request with a 'name' for which create_badge       *)
(* returned B is answered 200 with the image tag around B as its message.  *)
(***************************************************************************)
C3_BadgeIsReturned ==
    \A p \in Procs :
        (/\ Answered(p)
         /\ ValidCredentials(p)
         /\ HasField(frame[p], "base64_image"))
            => /\ response[p][1].status = 200
               /\ response[p][1].message = Some(HtmlFragment(frame[p].base64_image))

(***************************************************************************)
(* C4: a request whose credentials are not the configured pair is answered *)
(* 401, and the body of post does not run for it: no create_badge call,    *)
(* no debug.html write.                                                    *)
(***************************************************************************)
C4_Unauthorized ==
    \A p \in Procs :
        (request[p] # None /\ ~ValidCredentials(p) /\ pc[p] # "auth")
            => /\ Answered(p)
               /\ response[p][1].status = 401
               /\ response[p][1].message = None
               /\ DOMAIN handler[p] = {}
               /\ ~Called(p)
               /\ ~Saved(p)

C4_Witness ==
    \E p \in Procs :
        /\ Answered(p)
        /\ request[p] # None
        /\ request[p][1].creds.username = HEROKU
        /\ request[p][1].creds.password = WRONG
        /\ response[p][1].status = 401

(***************************************************************************)
(* C5: an authenticated request whose body is empty or has no 'name'       *)
(* field is answered 400 with the error  Invalid request, 'name' field is  *)
(* required , without a create_badge call or a debug.html write.           *)
(***************************************************************************)
C5_MissingNameIs400 ==
    \A p \in Procs :
        (/\ ValidCredentials(p)
         /\ pc[p] \notin {"auth", "post"}
         /\ LacksName(request[p][1].body))
            => /\ Answered(p)
               /\ response[p][1] = Response(400, None, Some(NAME_REQUIRED))
               /\ ~Called(p)
               /\ ~Saved(p)

(***************************************************************************)
(* C6: a failure of create_badge inside an authenticated, well-formed      *)
(* request stays in the handler: the request is answered 200 with the      *)
(* message  Error generating badge  and no image, one error is logged per  *)
(* failure, and the worker is free for the next request.                   *)
(***************************************************************************)
C6_FailureIsAnswered ==
    \A p \in Procs :
        (/\ Called(p)
         /\ frame[p].caller = "http"
         /\ HasField(frame[p], "exc"))
            => /\ pc[p] \in {"raised", "respond", "done"}
               /\ ~Saved(p)
               /\ (pc[p] # "raised" => /\ HasField(handler[p], "message")
                                       /\ handler[p].message = PlainMessage(ERROR_MESSAGE)
                                       /\ handler[p].exc = frame[p].exc
                                       /\ errorLog >= 1)
               /\ (pc[p] = "done" => /\ response[p] = Some(to_dict(PlainMessage(ERROR_MESSAGE)))
                                     /\ response[p][1].status = 200
                                     /\ response[p][1].message[1].image = None
                                     /\ Free(p))

(* A second failed request answered after a first one. *)
C6_Witness ==
    \E p \in Procs :
        /\ errorLog >= 2
        /\ Answered(p)
        /\ HasField(frame[p], "exc")
        /\ frame[p].exc \in {"UnidentifiedImageError", "ValueError"}
        /\ response[p][1].message = Some(PlainMessage(ERROR_MESSAGE))

(***************************************************************************)
(* C7: the canvas is max(box_width + 2*15, 200 + 2*15) wide, with          *)
(* box_width = text_width + 2*10: at least 230, at least the box and 30,   *)
(* and no narrower for wider lines.                                        *)
(***************************************************************************)
MeasuredWidths ==
    {textbbox(l, font)[3] :
        l \in DirectLines \cup {TITLE} \cup {DEPLOYED_BY \o n : n \in Names},
        font \in {ARIAL, DEFAULT_FONT}}

C7_CanvasWidth ==
    \A p \in Procs :
        LET f == frame[p] IN
        HasField(f, "badge_width")
            => /\ f.text_width = Max(f.line1_bbox[3], f.line2_bbox[3])
               /\ f.box_width = f.text_width + 20
               /\ f.badge_width \in {f.box_width + 30, 230}
               /\ f.badge_width >= 230
               /\ f.badge_width >= f.box_width + 30
               /\ f.badge.size[1] = f.badge_width
               /\ \A a, b \in MeasuredWidths :
                    (a >= f.line1_bbox[3] /\ b >= f.line2_bbox[3])
                        => BadgeWidth(BoxWidth(Max(a, b))) >= f.badge_width

C7_Witness ==
    \E p \in Procs :
        /\ HasField(frame[p], "badge_width")
        /\ frame[p].badge_width > 230
        /\ frame[p].line2_bbox[3] > frame[p].line1_bbox[3]

(***************************************************************************)
(* C8: the side of the square buffer is the ceiling of the diagonal of     *)
(* the label box, so its square is at least box_width^2 + box_height^2.    *)
(***************************************************************************)
C8_BufferCoversDiagonal ==
    \A p \in Procs :
        LET f == frame[p] IN
        HasField(f, "diagonal")
            => LET n == f.box_width * f.box_width + f.box_height * f.box_height IN
               /\ f.diagonal * f.diagonal >= n
               /\ (f.diagonal - 1) * (f.diagonal - 1) < n
               /\ f.rotated_box.size = <<f.diagonal, f.diagonal>>

(***************************************************************************)
(* C9 as stated: the height the logo is resized to is an integer nearest   *)
(* to 200 * original_height / original_width.                              *)
(***************************************************************************)
C9_HeightIsRounded ==
    \A p \in Procs :
        LET f == frame[p] IN
        HasField(f, "logo_height")
            => Abs(2 * f.original.width * f.logo_height - 2 * 200 * f.original.height)
                    <= f.original.width

(***************************************************************************)
(* C9, amended: the height is 200 * original_height / original_width       *)
(* truncated, never rounded up: it lies between that quotient minus one    *)
(* and the quotient, and is its floor whenever the quotient is no integer. *)
(* The logo is resized to 200 by that height when the height is at least   *)
(* 1; a height of 0 makes resize raise ValueError.                         *)
(***************************************************************************)
C9_HeightIsTruncated ==
    \A p \in Procs :
        LET f == frame[p] IN
        HasField(f, "logo_height")
            => LET w == f.original.width
                   h == f.original.height
                   lh == f.logo_height
               IN  /\ w * lh <= 200 * h
                   /\ 200 * h <= w * (lh + 1)
                   /\ ((200 * h) % w # 0 => lh = (200 * h) \div w)
                   /\ (lh >= 1 => f.logo = [width |-> 200, height |-> lh])
                   /\ (lh < 1 => HasField(f, "exc") /\ f.exc = "ValueError")

C9_Witness ==
    \E p \in Procs :
        /\ HasField(frame[p], "logo_height")
        /\ frame[p].original = [width |-> 1200, height |-> 400]
        /\ frame[p].logo = [width |-> 200, height |-> 66]

(***************************************************************************)
(* Where the unrotated label box lies on the badge: the paste position     *)
(* plus the box's origin in the buffer.                                    *)
(***************************************************************************)
BoxOnBadge(f) ==
    <<f.rotated_box_position[1] + f.box_origin[1],
      f.rotated_box_position[2] + f.box_origin[2]>>

LogoBottomEdge(f) == 15 + f.logo_height

PasteOffsetIsConsistent(f) ==
    /\ f.rotated_box_position = <<f.box_x - f.box_origin[1], f.box_y - f.box_origin[2]>>
    /\ f.badge.layers[2].at = f.rotated_box_position

(***************************************************************************)
(* C10 as stated: the centre of the unrotated label box lands on           *)
(* (canvas_center_x, logo_bottom_edge - 10), to the pixel, and the paste   *)
(* offset is the intended top-left minus the box's offset in the buffer.   *)
(***************************************************************************)
C10_BoxCentreOnAnchor ==
    \A p \in Procs :
        LET f == frame[p] IN
        HasField(f, "rotated_box_position")
            => /\ Abs(2 * BoxOnBadge(f)[1] + f.box_width - f.badge_width) <= 1
               /\ Abs(2 * BoxOnBadge(f)[2] + f.box_height - 2 * (LogoBottomEdge(f) - 10)) <= 1
               /\ PasteOffsetIsConsistent(f)

(***************************************************************************)
(* C10, amended: the top-left corner of the unrotated label box lands on   *)
(* ((badge_width - box_width) // 2, logo_bottom_edge - 10): the box is     *)
(* centred horizontally on the canvas and its top edge, not its centre,    *)
(* lies 10 above the logo's bottom edge.  The paste offset is that         *)
(* top-left minus the box's top-left offset in the buffer, in both axes.   *)
(***************************************************************************)
C10_BoxTopOnAnchor ==
    \A p \in Procs :
        LET f == frame[p] IN
        HasField(f, "rotated_box_position")
            => /\ BoxOnBadge(f) = <<(f.badge_width - f.box_width) \div 2, LogoBottomEdge(f) - 10>>
               /\ Abs(2 * BoxOnBadge(f)[1] + f.box_width - f.badge_width) <= 1
               /\ PasteOffsetIsConsistent(f)

C10_Witness ==
    \E p \in Procs :
        /\ HasField(frame[p], "rotated_box_position")
        /\ frame[p].box_width < 200
        /\ frame[p].box_width % 2 = 1
        /\ frame[p].rotated_box_position[2] < frame[p].box_y

(***************************************************************************)
(* The locals two calls have both bound.                                   *)
(***************************************************************************)
SameArguments(f, g) ==
    /\ HasField(f, "line1")
    /\ HasField(g, "line1")
    /\ f.line1 = g.line1
    /\ f.line2 = g.line2

(* logo and badge are bound twice in create_badge (the resized logo, the   *)
(* badge with the label pasted); every other local is bound once.          *)
Rebound == {"logo", "badge"}

BoundInBoth(f, g) == (DOMAIN f \cap DOMAIN g) \ ({"caller"} \cup Rebound)

====
